---- MODULE Spec2Model ----
(***************************************************************************)
(* The /scrape handlers of the scraper service.                            *)
(*                                                                         *)
(* src/server.backup.js holds the provider-fallback aggregation pipeline   *)
(* (CFBD games+lines, ESPN fill, HTML stub); src/server.js,                *)
(* src/delphi-edge-scraper/server.js, src/delphi-edge-scraper/src/index.js *)
(* and src/delphi-edge-scraper/src/routes/analyze.ts hold the single       *)
(* provider proxies.  One request is followed from its arrival to its      *)
(* response.                                                               *)
(*                                                                         *)
(* Strings the code takes apart (team names, league) are sequences of      *)
(* one-character strings.  A nullable JSON number is <<>> (null or         *)
(* undefined) or <<n>>.  Spreads and totals are integers standing for the  *)
(* providers' numbers.                                                     *)
(***************************************************************************)
EXTENDS Integers, Sequences, FiniteSets, TLC

VARIABLES
    variant,    \* which /scrape handler serves the request
    req,        \* the query string: [league, year, week, ncaaf_week]
    keySet,     \* whether process.env.CFBD_KEY is non-empty
    pc,         \* the handler's position
    params,     \* the handler's parsed locals: [league, year, week]
    calls,      \* fetches issued so far, per upstream endpoint
    outcomes,   \* history: <<endpoint, ok>> of every fetch that has settled
    data,       \* backup: data.games inside the try block
    idx,        \* backup: the Map of line 149, match key -> ESPN market
    espn,       \* backup: the games fetchViaEspn returned in the catch block
    primary,    \* history: data.games as fetchViaCfbd returned it
    filled,     \* history: data.games after the ESPN fill
    resp,       \* the response sent (status 0: none yet)
    keyIn,      \* match-key check: the two (home, away) pairs
    keyOut      \* match-key check: their two keys

vars == <<variant, req, keySet, pc, params, calls, outcomes, data, idx, espn,
          primary, filled, resp, keyIn, keyOut>>

(***************************************************************************)
(* Bounds of the model.                                                    *)
(***************************************************************************)
MaxGames == 2
MaxOdds == 2
MaxEvents == 2

ListsOver(S, n) == UNION {[1..k -> S] : k \in 0..n}

Max(S) == CHOOSE x \in S : \A y \in S : y <= x

(***************************************************************************)
(* String functions.                                                       *)
(***************************************************************************)
LowerChar(c) ==
    CASE c = "A" -> "a"
      [] c = "B" -> "b"
      [] c = "C" -> "c"
      [] c = "F" -> "f"
      [] c = "L" -> "l"
      [] c = "N" -> "n"
      [] OTHER -> c

toLowerCase(s) == [i \in 1..Len(s) |-> LowerChar(s[i])]

IsSpace(c) == c \in {" ", "\t"}

RECURSIVE dropSpaces(_)
dropSpaces(s) ==
    IF s # <<>> /\ IsSpace(Head(s)) THEN dropSpaces(Tail(s)) ELSE s

\* s.replace(/\s+/g, "-"): every maximal run of whitespace becomes one dash
RECURSIVE replaceSpaces(_)
replaceSpaces(s) ==
    IF s = <<>> THEN <<>>
    ELSE IF IsSpace(Head(s)) THEN <<"-">> \o replaceSpaces(dropSpaces(s))
    ELSE <<Head(s)>> \o replaceSpaces(Tail(s))

\* `${home}__${away}`.toLowerCase()
matchKeyNoLower(home, away) == home \o <<"_", "_">> \o away

matchKey(home, away) == toLowerCase(home \o <<"_", "_">> \o away)

\* `${league}-${home}-${away}`.toLowerCase().replace(/\s+/g, "-")
gameId(league, home, away) ==
    replaceSpaces(toLowerCase(league \o <<"-">> \o home \o <<"-">> \o away))

\* x ?? y on nullable numbers, and Number(x ?? d)
Nullish(x, y) == IF x = <<>> THEN y ELSE x

NumberOr(x, d) == IF x = <<>> THEN d ELSE x[1]

\* new Date(d).toISOString(), on the date strings the providers send
toISOString(d) ==
    CASE d = "2025-09-06T16:30:00Z" -> "2025-09-06T16:30:00.000Z"
      [] d = "2025-09-06T19:00Z" -> "2025-09-06T19:00:00.000Z"
      [] OTHER -> "now"

kickoffOf(d) == IF d = "" THEN "now" ELSE toISOString(d)

(***************************************************************************)
(* normalize, pickConsensusLine, fetchViaCfbd, fetchViaEspn.               *)
(***************************************************************************)
\* rows carry numeric spread and total, so Number(r.spread ?? 0) copies them
normalize(rows) ==
    [i \in 1..Len(rows) |->
        LET r == rows[i]
        IN  [id |-> r.id, home |-> r.home, away |-> r.away, kickoff |-> r.kickoff,
             market |-> [spread |-> r.spread, total |-> r.total]]]

RECURSIVE pickConsensusLine(_)
pickConsensusLine(linesForGame) ==
    IF linesForGame = <<>> THEN [spread |-> 0, total |-> 0]
    ELSE LET l == Head(linesForGame)
             spread == Nullish(l.spread, l.formula)
             total == l.overUnder
         IN  IF spread # <<>> \/ total # <<>>
             THEN [spread |-> NumberOr(spread, 0), total |-> NumberOr(total, 0)]
             ELSE pickConsensusLine(Tail(linesForGame))

\* byMatch.get(key): the odds records of one key, in source order
byMatch(odds, key) ==
    SelectSeq(odds, LAMBDA o : matchKey(o.homeTeam, o.awayTeam) = key)

fetchViaCfbd(league, games, odds) ==
    normalize(
        [i \in 1..Len(games) |->
            LET g == games[i]
                consensus ==
                    pickConsensusLine(byMatch(odds, matchKey(g.home_team, g.away_team)))
            IN  [id |-> gameId(league, g.home_team, g.away_team),
                 home |-> g.home_team, away |-> g.away_team,
                 kickoff |-> kickoffOf(g.start_date),
                 spread |-> consensus.spread, total |-> consensus.total]])

RECURSIVE espnRows(_, _)
espnRows(league, events) ==
    IF events = <<>> THEN <<>>
    ELSE LET e == Head(events)
             rest == espnRows(league, Tail(events))
         IN  IF ~e.comp THEN rest
             ELSE IF e.home # <<>> /\ e.away # <<>>
             THEN <<[id |-> gameId(league, e.home, e.away),
                     home |-> e.home, away |-> e.away,
                     kickoff |-> kickoffOf(e.date),
                     spread |-> NumberOr(e.spread, 0),
                     total |-> NumberOr(e.overUnder, 0)]>> \o rest
             ELSE rest

fetchViaEspn(league, events) == normalize(espnRows(league, events))


(***************************************************************************)
(* The two fill steps of the fallback chain.                               *)
(***************************************************************************)
\* new Map(espn.games.map(g => [key, g.market])): of two games with one key
\* the later one stays
espnIndex(espnGames) ==
    LET keys == {matchKey(espnGames[i].home, espnGames[i].away) : i \in 1..Len(espnGames)}
    IN  [k \in keys |->
            espnGames[Max({i \in 1..Len(espnGames) :
                            matchKey(espnGames[i].home, espnGames[i].away) = k})].market]

\* !g.market.spread && !g.market.total
needsFill(g) == g.market.spread = 0 /\ g.market.total = 0

espnFill(games, index) ==
    [i \in 1..Len(games) |->
        LET g == games[i]
            k == matchKey(g.home, g.away)
        IN  IF needsFill(g) /\ k \in DOMAIN index
            THEN [g EXCEPT !.market = index[k]]
            ELSE g]

\* the rows handed to fillLinesWithHtml, which returns them unchanged
htmlRows(games) ==
    [i \in 1..Len(games) |->
        LET g == games[i]
        IN  [id |-> g.id, home |-> g.home, away |-> g.away, kickoff |-> g.kickoff,
             spread |-> g.market.spread, total |-> g.market.total]]

fillLinesWithHtml(rows) == rows

\* new Map(rows.map(r => [r.id, r])).get(id): the last row of that id
rowById(rows, id) == rows[Max({i \in 1..Len(rows) : rows[i].id = id})]

\* m.spread and m.total are numbers, so the ?? of line 173 keeps them
htmlFill(games) ==
    LET rows == fillLinesWithHtml(htmlRows(games))
    IN  [i \in 1..Len(games) |->
            LET g == games[i]
            IN  IF \E j \in 1..Len(rows) : rows[j].id = g.id
                THEN LET m == rowById(rows, g.id)
                     IN  [g EXCEPT !.market = [spread |-> m.spread, total |-> m.total]]
                ELSE g]

(***************************************************************************)
(* Requests and responses.                                                 *)
(***************************************************************************)
Absent == "<absent>"

\* v || d takes d for a missing and for an empty parameter
Truthy(s) == s \notin {Absent, ""}

NCAAF == <<"n", "c", "a", "a", "f">>

\* Number(v) on the week strings of the model
NumberOf(s) ==
    CASE s = "2" -> "2"
      [] s = "0" -> "0"
      [] s = "-1" -> "-1"
      [] OTHER -> "NaN"

Min(a, b) == IF a < b THEN a ELSE b

\* upstreamChars: how many characters of the upstream error body the response
\* carries; detail: whether it carries the exception's message
NoResp ==
    [status |-> 0, kind |-> "none", error |-> "", detail |-> FALSE, hasGames |-> FALSE,
     games |-> <<>>, upstreamChars |-> 0]

JsonError(status, code) ==
    [status |-> status, kind |-> "json", error |-> code, detail |-> FALSE,
     hasGames |-> FALSE, games |-> <<>>, upstreamChars |-> 0]

JsonGames(games) ==
    [status |-> 200, kind |-> "json", error |-> "", detail |-> FALSE, hasGames |-> TRUE,
     games |-> games, upstreamChars |-> 0]

NoCalls == [games |-> 0, lines |-> 0, espn |-> 0]

NoIndex == <<>>

(***************************************************************************)
(* What the providers may send.                                            *)
(***************************************************************************)
\* "a" (CFBD) and "A" (ESPN) differ in case only: one key, one id; "a " and
\* "a-" are two matchups (two keys) whose ids are equal
CfbdMatchups ==
    { [home |-> <<"a">>, away |-> <<"b">>],
      [home |-> <<"a", " ">>, away |-> <<"b">>],
      [home |-> <<"a", "-">>, away |-> <<"b">>] }

EspnMatchups ==
    { [home |-> <<"A">>, away |-> <<"b">>],
      [home |-> <<"a", " ">>, away |-> <<"b">>],
      [home |-> <<"a", "-">>, away |-> <<"b">>] }

OneMatchup == { [home |-> <<"a">>, away |-> <<"b">>] }

LineShapes ==
    { [spread |-> <<>>, formula |-> <<>>, overUnder |-> <<>>],
      [spread |-> <<3>>, formula |-> <<>>, overUnder |-> <<50>>],
      [spread |-> <<>>, formula |-> <<3>>, overUnder |-> <<>>] }

CfbdDate == "2025-09-06T16:30:00Z"

EspnDate == "2025-09-06T19:00Z"

CfbdGameRecords(M) ==
    { [home_team |-> m.home, away_team |-> m.away, start_date |-> CfbdDate] : m \in M }

CfbdLineRecords(M) ==
    { [homeTeam |-> m.home, awayTeam |-> m.away, spread |-> s.spread,
       formula |-> s.formula, overUnder |-> s.overUnder] : m \in M, s \in LineShapes }

\* besides the events of the matchups: one without competitions and one
\* whose home competitor has no displayName
EspnEvents(M) ==
    { [comp |-> TRUE, home |-> m.home, away |-> m.away, date |-> EspnDate,
       spread |-> o.spread, overUnder |-> o.overUnder] :
        m \in M,
        o \in { [spread |-> <<>>, overUnder |-> <<>>], [spread |-> <<7>>, overUnder |-> <<40>>] } }
    \cup { [comp |-> FALSE, home |-> <<>>, away |-> <<>>, date |-> "",
            spread |-> <<>>, overUnder |-> <<>>],
           [comp |-> TRUE, home |-> <<>>, away |-> <<"b">>, date |-> "",
            spread |-> <<>>, overUnder |-> <<>>] }

(***************************************************************************)
(* src/server.backup.js: /scrape with the fallback chain.                  *)
(***************************************************************************)
Settle(ep, ok) == outcomes' = Append(outcomes, <<ep, ok>>)

\* lines 140-145 and 67: read the query, then issue both CFBD fetches
BackupStart ==
    /\ variant = "backup" /\ pc = "start"
    /\ params' = [league |-> IF req.league = <<>> THEN NCAAF ELSE req.league,
                  year |-> "YEAR",
                  week |-> IF Truthy(req.week) THEN NumberOf(req.week) ELSE "1"]
    /\ calls' = [calls EXCEPT !.games = @ + 1, !.lines = @ + 1]
    /\ pc' = "cfbd"
    /\ UNCHANGED <<variant, req, keySet, outcomes, data, idx, espn, primary, filled, resp,
                   keyIn, keyOut>>

\* Promise.all of line 67 rejects; the catch of line 177 calls fetchViaEspn
CfbdFail ==
    /\ variant = "backup" /\ pc = "cfbd"
    /\ \E gamesOk, linesOk \in BOOLEAN :
          /\ ~(gamesOk /\ linesOk)
          /\ outcomes' = outcomes \o <<(<<"games", gamesOk>>), (<<"lines", linesOk>>)>>
    /\ calls' = [calls EXCEPT !.espn = @ + 1]
    /\ pc' = "catch"
    /\ UNCHANGED <<variant, req, keySet, params, data, idx, espn, primary, filled, resp,
                   keyIn, keyOut>>

\* lines 67-96, then line 148 issues the ESPN fetch
CfbdOk(M) ==
    /\ variant = "backup" /\ pc = "cfbd"
    /\ outcomes' = outcomes \o <<(<<"games", TRUE>>), (<<"lines", TRUE>>)>>
    /\ \E games \in ListsOver(CfbdGameRecords(M), MaxGames),
          odds \in ListsOver(CfbdLineRecords(M), MaxOdds) :
            data' = fetchViaCfbd(params.league, games, odds)
    /\ primary' = data'
    /\ calls' = [calls EXCEPT !.espn = @ + 1]
    /\ pc' = "espn_fill"
    /\ UNCHANGED <<variant, req, keySet, params, idx, espn, filled, resp, keyIn, keyOut>>

\* line 148 throws inside the try: the catch of line 177 takes it as a CFBD
\* failure, data goes out of scope and fetchViaEspn is called again
EspnFillFail ==
    /\ variant = "backup" /\ pc = "espn_fill"
    /\ Settle("espn", FALSE)
    /\ data' = <<>>
    /\ calls' = [calls EXCEPT !.espn = @ + 1]
    /\ pc' = "catch"
    /\ UNCHANGED <<variant, req, keySet, params, idx, espn, primary, filled, resp,
                   keyIn, keyOut>>

\* lines 148-156
EspnFillOk(M) ==
    /\ variant = "backup" /\ pc = "espn_fill"
    /\ Settle("espn", TRUE)
    /\ \E events \in ListsOver(EspnEvents(M), MaxEvents) :
          idx' = espnIndex(fetchViaEspn(params.league, events))
    /\ data' = espnFill(data, idx')
    /\ filled' = data'
    /\ pc' = "html"
    /\ UNCHANGED <<variant, req, keySet, params, calls, espn, primary, resp, keyIn, keyOut>>

\* lines 159-176
HtmlFill ==
    /\ variant = "backup" /\ pc = "html"
    /\ data' = htmlFill(data)
    /\ resp' = JsonGames(data')
    /\ pc' = "done"
    /\ UNCHANGED <<variant, req, keySet, params, calls, outcomes, idx, espn, primary,
                   filled, keyIn, keyOut>>

catchSuccessResponseFilled(d) == JsonGames(htmlFill(d))

\* line 181: res.json(data)
catchSuccessResponse(d) == JsonGames(d)

\* lines 180-181
CatchEspnOk(M) ==
    /\ variant = "backup" /\ pc = "catch"
    /\ Settle("espn", TRUE)
    /\ \E events \in ListsOver(EspnEvents(M), MaxEvents) :
          espn' = fetchViaEspn(params.league, events)
    /\ resp' = catchSuccessResponse(espn')
    /\ pc' = "done"
    /\ UNCHANGED <<variant, req, keySet, params, calls, data, idx, primary, filled,
                   keyIn, keyOut>>

catchFailureResponsePartial == JsonGames(primary)

\* line 184: res.status(502).json({ error: "scrape_failed" })
catchFailureResponse == JsonError(502, "scrape_failed")

\* lines 182-185
CatchEspnFail ==
    /\ variant = "backup" /\ pc = "catch"
    /\ Settle("espn", FALSE)
    /\ resp' = catchFailureResponse
    /\ pc' = "done"
    /\ UNCHANGED <<variant, req, keySet, params, calls, data, idx, espn, primary, filled,
                   keyIn, keyOut>>

(***************************************************************************)
(* The single-provider handlers: src/server.js ("server"),                 *)
(* src/delphi-edge-scraper/server.js ("edgeCjs", lines 45-80, and          *)
(* "edgeEsm", lines 137-170), src/delphi-edge-scraper/src/index.js         *)
(* ("index") and src/delphi-edge-scraper/src/routes/analyze.ts ("analyze").*)
(***************************************************************************)
Validating == {"server", "edgeCjs", "edgeEsm"}

Forwarding == {"index", "analyze"}

IsPositiveInt(s) == s \in {"2", "5", "2025"}

\* the locals each handler reads from the query string
parseQuery(v, q) ==
    CASE v \in Validating ->
            [league |-> toLowerCase(q.league),
             year |-> IF Truthy(q.year) THEN q.year ELSE "2025",
             week |-> IF Truthy(q.week) THEN q.week ELSE ""]
      [] v = "index" ->
            [league |-> <<>>,
             year |-> IF Truthy(q.year) THEN q.year ELSE "2025",
             week |-> IF Truthy(q.ncaaf_week) THEN q.ncaaf_week ELSE "2"]
      [] v = "analyze" ->
            [league |-> <<>>,
             year |-> IF q.year = Absent THEN "2025" ELSE q.year,
             week |-> IF q.ncaaf_week = Absent THEN "5" ELSE q.ncaaf_week]

validateStrict(p) ==
    IF p.league = <<>> THEN "missing_league"
    ELSE IF p.league # NCAAF THEN "unsupported_league"
    ELSE IF p.week = "" THEN "missing_week"
    ELSE IF ~IsPositiveInt(p.week) \/ ~IsPositiveInt(p.year) THEN "invalid_request"
    ELSE ""

\* the three checks before the key is read; "" when the request passes
validate(p) ==
    IF p.league = <<>> THEN "missing_league"
    ELSE IF p.league # NCAAF THEN "unsupported_league"
    ELSE IF p.week = "" THEN "missing_week"
    ELSE ""

Rejects(v, p) == v \in Validating /\ validate(p) # ""

\* a request the handler answers 400, without a fetch
Reject ==
    /\ variant \in Validating /\ pc = "start"
    /\ params' = parseQuery(variant, req)
    /\ Rejects(variant, params')
    /\ resp' = JsonError(400, validate(params'))
    /\ pc' = "done"
    /\ UNCHANGED <<variant, req, keySet, calls, outcomes, data, idx, espn, primary, filled,
                   keyIn, keyOut>>

\* CFBD_KEY is empty: 500 missing_cfbd_key; fetchCfbdGames of "edgeEsm" throws
\* instead and the handler's catch answers
NoKey ==
    /\ variant \in Validating \cup Forwarding /\ pc = "start"
    /\ params' = parseQuery(variant, req)
    /\ ~Rejects(variant, params')
    /\ ~keySet
    /\ resp' = IF variant = "edgeEsm"
               THEN [JsonError(500, "scrape_failed") EXCEPT !.detail = TRUE]
               ELSE JsonError(500, "missing_cfbd_key")
    /\ pc' = "done"
    /\ UNCHANGED <<variant, req, keySet, calls, outcomes, data, idx, espn, primary, filled,
                   keyIn, keyOut>>

\* the one fetch of the CFBD games endpoint is issued
Fetch ==
    /\ variant \in Validating \cup Forwarding /\ pc = "start"
    /\ params' = parseQuery(variant, req)
    /\ ~Rejects(variant, params')
    /\ keySet
    /\ calls' = [calls EXCEPT !.games = @ + 1]
    /\ pc' = "upstream"
    /\ UNCHANGED <<variant, req, keySet, outcomes, data, idx, espn, primary, filled, resp,
                   keyIn, keyOut>>

\* the handler's catch: the exception's message goes into the response
exceptionResponse(v) ==
    IF v \in Validating
    THEN [JsonError(500, "scrape_failed") EXCEPT !.detail = TRUE]
    ELSE [JsonError(500, "scrape_exception") EXCEPT !.detail = TRUE]

\* fetch rejects (no connection; the timeout of "analyze")
UpstreamThrow ==
    /\ variant \in Validating \cup Forwarding /\ pc = "upstream"
    /\ Settle("games", FALSE)
    /\ resp' = exceptionResponse(variant)
    /\ pc' = "done"
    /\ UNCHANGED <<variant, req, keySet, params, calls, data, idx, espn, primary, filled,
                   keyIn, keyOut>>

\* the answer to an upstream status outside 200..299 whose body has len characters
badStatusResponse(v, status, len) ==
    CASE v \in {"server", "edgeCjs"} ->
            [JsonError(502, "cfbd_bad_status") EXCEPT !.upstreamChars = Min(len, 300)]
      [] v = "edgeEsm" ->
            [JsonError(500, "scrape_failed") EXCEPT
                !.detail = TRUE, !.upstreamChars = Min(len, 200)]
      [] v \in Forwarding ->
            [status |-> status, kind |-> "text", error |-> "", detail |-> FALSE,
             hasGames |-> FALSE, games |-> <<>>, upstreamChars |-> len]

UpstreamNotOk ==
    /\ variant \in Validating \cup Forwarding /\ pc = "upstream"
    /\ Settle("games", FALSE)
    /\ \E status \in {401, 503}, len \in {0, 250, 400} :
          resp' = badStatusResponse(variant, status, len)
    /\ pc' = "done"
    /\ UNCHANGED <<variant, req, keySet, params, calls, data, idx, espn, primary, filled,
                   keyIn, keyOut>>

NoContent ==
    [status |-> 204, kind |-> "empty", error |-> "", detail |-> FALSE, hasGames |-> FALSE,
     games |-> <<>>, upstreamChars |-> 0]

\* the answer to an upstream 2xx; payload.kind is "array", "object" (JSON that
\* is no array) or "invalid" (no JSON)
okResponse(v, payload) ==
    CASE v \in Forwarding ->
            [JsonGames(payload.items) EXCEPT !.hasGames = (payload.kind = "array")]
      [] v \in Validating /\ payload.kind = "invalid" -> exceptionResponse(v)
      [] v = "server" -> JsonGames(payload.items)
      [] v \in {"edgeCjs", "edgeEsm"} ->
            IF payload.kind # "array" \/ Len(payload.items) = 0
            THEN NoContent
            ELSE JsonGames(payload.items)

Payloads ==
    { [kind |-> "array", items |-> l] :
        l \in ListsOver(CfbdGameRecords(OneMatchup), MaxGames) }
    \cup { [kind |-> "object", items |-> <<>>], [kind |-> "invalid", items |-> <<>>] }

UpstreamOk ==
    /\ variant \in Validating \cup Forwarding /\ pc = "upstream"
    /\ Settle("games", TRUE)
    /\ \E payload \in Payloads : resp' = okResponse(variant, payload)
    /\ pc' = "done"
    /\ UNCHANGED <<variant, req, keySet, params, calls, data, idx, espn, primary, filled,
                   keyIn, keyOut>>

(***************************************************************************)
(* The aggregation pipeline: the fallback chain on the default request.    *)
(***************************************************************************)
NoKeys == <<>>

Idle ==
    /\ params = [league |-> <<>>, year |-> "", week |-> ""]
    /\ calls = NoCalls
    /\ outcomes = <<>>
    /\ data = <<>> /\ idx = NoIndex /\ espn = <<>> /\ primary = <<>> /\ filled = <<>>
    /\ resp = NoResp

Init ==
    /\ variant = "backup"
    /\ req = [league |-> <<>>, year |-> Absent, week |-> Absent, ncaaf_week |-> Absent]
    /\ keySet = TRUE
    /\ pc = "start"
    /\ Idle
    /\ keyIn = NoKeys /\ keyOut = NoKeys

Next ==
    \/ BackupStart
    \/ CfbdFail
    \/ CfbdOk(CfbdMatchups)
    \/ EspnFillFail
    \/ EspnFillOk(EspnMatchups)
    \/ HtmlFill
    \/ CatchEspnOk(EspnMatchups)
    \/ CatchEspnFail

Spec == Init /\ [][Next]_vars

(***************************************************************************)
(* The service: every handler, on every query string of the model.         *)
(***************************************************************************)
Leagues == { <<>>, NCAAF, <<"N", "C", "A", "A", "F">>, <<"n", "f", "l">> }

Weeks == { Absent, "", "2", "0", "-1", "abc" }

Years == { Absent, "2025", "abc" }

\* a handler's request sets only the parameters the handler reads
Requests(v) ==
    CASE v = "backup" ->
            { [league |-> l, year |-> Absent, week |-> w, ncaaf_week |-> Absent] :
                l \in Leagues, w \in Weeks }
      [] v \in Validating ->
            { [league |-> l, year |-> y, week |-> w, ncaaf_week |-> Absent] :
                l \in Leagues, y \in Years, w \in Weeks }
      [] v \in Forwarding ->
            { [league |-> <<>>, year |-> y, week |-> Absent, ncaaf_week |-> w] :
                y \in Years, w \in Weeks }

InitService ==
    /\ variant \in {"backup"} \cup Validating \cup Forwarding
    /\ req \in Requests(variant)
    /\ keySet \in BOOLEAN
    /\ pc = "start"
    /\ Idle
    /\ keyIn = NoKeys /\ keyOut = NoKeys

NextService ==
    \/ BackupStart
    \/ CfbdFail
    \/ CfbdOk(OneMatchup)
    \/ EspnFillFail
    \/ EspnFillOk(OneMatchup)
    \/ HtmlFill
    \/ CatchEspnOk(OneMatchup)
    \/ CatchEspnFail
    \/ Reject
    \/ NoKey
    \/ Fetch
    \/ UpstreamThrow
    \/ UpstreamNotOk
    \/ UpstreamOk

SpecService == InitService /\ [][NextService]_vars

(***************************************************************************)
(* The match key as a function of two (home, away) pairs.                  *)
(***************************************************************************)
KeyNames ==
    { <<"a">>, <<"A">>, <<"a", " ">>, <<" ", "a">>, <<"a", " ", "b">>,
      <<"A", " ", "B">>, <<"a", " ", " ", "b">> }

KeyPairs == { [home |-> h, away |-> a] : h \in KeyNames, a \in KeyNames }

InitKey ==
    /\ variant = "none"
    /\ req = [league |-> <<>>, year |-> Absent, week |-> Absent, ncaaf_week |-> Absent]
    /\ keySet = TRUE
    /\ pc = "key"
    /\ Idle
    /\ keyIn \in KeyPairs \X KeyPairs
    /\ keyOut = NoKeys

DeriveKeys ==
    /\ pc = "key"
    /\ keyOut' = <<matchKey(keyIn[1].home, keyIn[1].away),
                   matchKey(keyIn[2].home, keyIn[2].away)>>
    /\ pc' = "keyed"
    /\ UNCHANGED <<variant, req, keySet, params, calls, outcomes, data, idx, espn, primary,
                   filled, resp, keyIn>>

NextKey == DeriveKeys

SpecKey == InitKey /\ [][NextKey]_vars

(***************************************************************************)
(* Properties.                                                             *)
(***************************************************************************)
PrimaryOk ==
    /\ Len(outcomes) >= 2
    /\ outcomes[1] = <<"games", TRUE>> /\ outcomes[2] = <<"lines", TRUE>>

PrimaryFailed ==
    /\ Len(outcomes) >= 2
    /\ outcomes[1][1] = "games" /\ outcomes[2][1] = "lines"
    /\ ~(outcomes[1][2] /\ outcomes[2][2])

FillOk == PrimaryOk /\ Len(outcomes) >= 3 /\ outcomes[3] = <<"espn", TRUE>>

FillFailed == PrimaryOk /\ Len(outcomes) >= 3 /\ outcomes[3] = <<"espn", FALSE>>

KeyOf(g) == matchKey(g.home, g.away)

\* C1: when CFBD succeeds and the ESPN fetch of the fill step fails, the response
\* is a success holding every game built from CFBD's data, the unfilled ones
\* with spread 0 and total 0.
C1_PartialFailureKeepsPrimary ==
    (variant = "backup" /\ pc = "done" /\ FillFailed) =>
        /\ resp.status = 200
        /\ resp.hasGames
        /\ \A i \in 1..Len(primary) :
              \E j \in 1..Len(resp.games) :
                  /\ resp.games[j].id = primary[i].id
                  /\ resp.games[j].home = primary[i].home
                  /\ resp.games[j].away = primary[i].away
                  /\ resp.games[j].kickoff = primary[i].kickoff
                  /\ needsFill(primary[i]) => needsFill(resp.games[j])

\* C2: when the primary phase fails and ESPN fails too, the response is a 5xx
\* JSON error with code scrape_failed and carries no games.
C2_TotalFailure ==
    (variant = "backup" /\ pc = "done" /\ PrimaryFailed /\ outcomes[3] = <<"espn", FALSE>>) =>
        /\ resp.status \in 500..599
        /\ resp.kind = "json"
        /\ resp.error = "scrape_failed"
        /\ ~resp.hasGames
        /\ resp.games = <<>>

C2_Witness ==
    /\ variant = "backup" /\ pc = "done"
    /\ outcomes = <<(<<"games", TRUE>>), (<<"lines", FALSE>>), (<<"espn", FALSE>>)>>
    /\ resp.status = 502

\* C3: when the primary phase fails (the games fetch or the lines fetch) and ESPN
\* then succeeds, the response is ESPN's normalized games as fetchViaEspn
\* returned them: neither fill step has touched them and nothing in them comes
\* from CFBD.
C3_SecondaryOnly ==
    (variant = "backup" /\ pc = "done" /\ PrimaryFailed /\ outcomes[3] = <<"espn", TRUE>>) =>
        /\ resp = JsonGames(espn)
        /\ primary = <<>> /\ idx = NoIndex
        /\ \A i \in 1..Len(resp.games) :
              /\ resp.games[i].kickoff # toISOString(CfbdDate)
              /\ resp.games[i].market \in
                    { [spread |-> 0, total |-> 0], [spread |-> 7, total |-> 40] }

\* two ESPN games of one id and different markets: the tertiary fill would
\* have changed the first
C3_Witness ==
    /\ variant = "backup" /\ pc = "done" /\ PrimaryFailed
    /\ outcomes[3] = <<"espn", TRUE>>
    /\ Len(resp.games) = 2
    /\ resp.games[1].id = resp.games[2].id
    /\ resp.games[1].market # resp.games[2].market

\* C4: on the path where CFBD and the ESPN fill both succeed, every game whose
\* CFBD market is not all-zero has CFBD's (spread, total) pair in the response.
C4_MergePrecedence ==
    (variant = "backup" /\ pc = "done" /\ FillOk) =>
        /\ resp.hasGames
        /\ Len(resp.games) = Len(primary)
        /\ \A i \in 1..Len(primary) :
              ~needsFill(primary[i]) => resp.games[i].market = primary[i].market

\* C5: on the same path, every game whose CFBD market is 0/0 and whose match key
\* ESPN returned has ESPN's (spread, total) pair in the response.
C5_FallbackFill ==
    (variant = "backup" /\ pc = "done" /\ FillOk) =>
        /\ Len(resp.games) = Len(primary)
        /\ \A i \in 1..Len(primary) :
              (needsFill(primary[i]) /\ KeyOf(primary[i]) \in DOMAIN idx) =>
                  resp.games[i].market = idx[KeyOf(primary[i])]

(***************************************************************************)
(* C6: the match key.                                                      *)
(***************************************************************************)
RECURSIVE collapseSpaces(_)
collapseSpaces(s) ==
    IF s = <<>> THEN <<>>
    ELSE IF IsSpace(Head(s)) THEN <<" ">> \o collapseSpaces(dropSpaces(s))
    ELSE <<Head(s)>> \o collapseSpaces(Tail(s))

RECURSIVE dropTrailingSpaces(_)
dropTrailingSpaces(s) ==
    IF s # <<>> /\ IsSpace(s[Len(s)])
    THEN dropTrailingSpaces(SubSeq(s, 1, Len(s) - 1))
    ELSE s

\* a name with case and whitespace (leading, trailing, repeated) taken out
Canon(s) == collapseSpaces(dropTrailingSpaces(dropSpaces(toLowerCase(s))))

SpaceCount(p) ==
    Cardinality({i \in 1..Len(p.home) : IsSpace(p.home[i])})
        + Cardinality({i \in 1..Len(p.away) : IsSpace(p.away[i])})

SameButCase(p, q) ==
    toLowerCase(p.home) = toLowerCase(q.home) /\ toLowerCase(p.away) = toLowerCase(q.away)

ReadsWeek == {"backup"} \cup Validating

LeagueSupported == toLowerCase(req.league) = NCAAF

NotPositiveInt(s) == s # Absent /\ ~IsPositiveInt(s)

\* C7: a request with week omitted is answered 400 missing_week, one with an
\* unsupported league 400 unsupported_league, and no fetch is issued for either.
C7_InvalidRejectedBeforeFetch ==
    variant \in ReadsWeek =>
        /\ (req.league # <<>> /\ ~LeagueSupported) =>
              /\ calls = NoCalls
              /\ pc = "done" => (resp.status = 400 /\ resp.error = "unsupported_league")
        /\ (LeagueSupported /\ req.week = Absent) =>
              /\ calls = NoCalls
              /\ pc = "done" => (resp.status = 400 /\ resp.error = "missing_week")

C9_StructuredErrors ==
    (pc = "done" /\ resp.status >= 400) =>
        /\ resp.kind = "json"
        /\ resp.error # ""
        /\ resp.upstreamChars = 0

\* C10: two games of one response that are different matchups (different match
\* keys) have different ids.
C10_UniqueIds ==
    (variant = "backup" /\ pc = "done" /\ resp.hasGames) =>
        \A i, j \in 1..Len(resp.games) :
            KeyOf(resp.games[i]) # KeyOf(resp.games[j]) =>
                resp.games[i].id # resp.games[j].id

(***************************************************************************)
(* C11 - C13: re-attempts, and what the two fill steps leave alone.        *)
(***************************************************************************)
Endpoints == {"games", "lines", "espn"}

\* the fetches of endpoint ep among the first n that settled
SettledUpTo(ep, n) == Cardinality({j \in 1..n : outcomes[j][1] = ep})

\* C11: every provider endpoint is fetched at most once in a request, and an
\* endpoint whose fetch has failed is not fetched again.
C11_NoReattempt ==
    variant = "backup" =>
        /\ \A ep \in Endpoints : calls[ep] <= 1
        /\ \A i \in 1..Len(outcomes) :
              ~outcomes[i][2] => calls[outcomes[i][1]] = SettledUpTo(outcomes[i][1], i)

SameButMarket(g, h) ==
    g.id = h.id /\ g.home = h.home /\ g.away = h.away /\ g.kickoff = h.kickoff

\* the games of a and of b are the same ones in the same order, up to market
SameGames(a, b) ==
    Len(a) = Len(b) /\ \A i \in 1..Len(a) : SameButMarket(a[i], b[i])

\* C12: whenever the primary fetch succeeded, the games of the response are the
\* primary's games in the primary's order with the primary's id, home, away and
\* kickoff, and so are the games after the fallback fill.
C12_PrimaryFieldsKept ==
    (variant = "backup" /\ PrimaryOk) =>
        /\ (pc \in {"html", "done"} /\ FillOk) => SameGames(filled, primary)
        /\ (pc = "done" /\ resp.hasGames) => SameGames(resp.games, primary)

\* the part of C12 that is about the two fill steps alone: where both have run
\* they changed nothing but market
FillStepsKeepFields ==
    (variant = "backup" /\ FillOk) =>
        /\ pc \in {"html", "done"} => SameGames(filled, primary)
        /\ pc = "done" => (resp.hasGames /\ SameGames(resp.games, primary))

\* C13: after the tertiary fill every game has the market it had after the
\* fallback fill, also when two games have one id.
C13_TertiaryPassThrough ==
    (variant = "backup" /\ pc = "done" /\ FillOk) =>
        /\ Len(resp.games) = Len(filled)
        /\ \A i \in 1..Len(filled) : resp.games[i].market = filled[i].market

====
